---- MODULE Spec2Model ----
(***************************************************************************)
(* A model of the Wwise SoundBank container engine of package bnk          *)
(* (src/bnk/file.go): parsing a byte source into a File (NewFile),         *)
(* replacing wems (ReplaceWem / ReplaceWems) and serializing (WriteTo).    *)
(*                                                                         *)
(* The byte source is a sequence of bytes; offsets are 0-based as in the   *)
(* Go code, so the byte at offset o of b is b[o + 1].  A Go pointer that   *)
(* may be nil is a sequence of length at most one: Nil or Ptr(x).          *)
(***************************************************************************)
EXTENDS Integers, Sequences, FiniteSets, TLC

VARIABLES
    input,  \* the bytes behind the io.ReaderAt given to NewFile
    gen,    \* how input was assembled (chunks before truncation); never read by the code
    pc,     \* "start" before NewFile, "parsed" once a File is held, "failed" otherwise
    result, \* what NewFile returned or how it panicked
    bnk,    \* the *File: Nil or Ptr(File)
    out,    \* what the last File.WriteTo wrote to w and returned
    last,   \* the last call made: op, its name; panic, how it ended; and for a
            \* replacement call n, the entries it was given (1 for ReplaceWem), given,
            \* the wem indexes in them, and length, the Length given when n = 1
    hist    \* the calls made since NewFile: replaces, the replacement entries given
            \* (one per ReplaceWem call); applied, those applied; writes, the WriteTo
            \* calls; valid, whether every replacement call returned and had sources
            \* of at least Length bytes

vars == <<input, gen, pc, result, bnk, out, last, hist>>

----------------------------------------------------------------------------
(* Bounds of the model. *)

\* Replacement lengths offered to ReplaceWem / ReplaceWems: 0..MaxNewLen.
MaxNewLen == 3
\* Replacement sources hold 0..MaxSrcLen bytes.
MaxSrcLen == 2
\* Replacement entries given to one File, over all its ReplaceWem calls
\* (one entry each) and ReplaceWems calls (any number of them each).
MaxReplacements == 2
\* File.WriteTo calls made on one File.
MaxWrites == 1
\* Buffer sizes io.Copy may read with: 1..MaxCopyBuf.
MaxCopyBuf == 2
\* Bytes cut off the end of the input: 0..MaxCut.
MaxCut == 11

----------------------------------------------------------------------------
(* Program constants. *)

SECTION_HEADER_BYTES == 8
BKHD_SECTION_BYTES == 8
DIDX_ENTRY_BYTES == 12

bkhdHeaderId == <<66, 75, 72, 68>>
didxHeaderId == <<68, 73, 68, 88>>
dataHeaderId == <<68, 65, 84, 65>>

\* uint32(hdr.Length - BKHD_SECTION_BYTES) wraps to at least 2^32 - 8 when
\* hdr.Length < 8: an offset beyond the end of every input of the model.
\* The model's integers are 32 bits wide, so the wrapped value is
\* represented by this offset, which is also beyond the end of every input.
WrappedFar == 2^30

----------------------------------------------------------------------------
(* Pointers. *)

Nil == <<>>
Ptr(x) == <<x>>
Deref(p) == p[1]

Min(a, b) == IF a < b THEN a ELSE b

\* The element of a singleton.  The({e(x) : x \in {v}}) is e(v) with v
\* evaluated once: the model's way of naming an intermediate result.
The(S) == CHOOSE x \in S : TRUE

----------------------------------------------------------------------------
(* encoding/binary, little endian. *)

LE32(n) ==
    <<n % 256, (n \div 256) % 256, (n \div 65536) % 256, (n \div 16777216) % 256>>

U32At(b, o) ==
    b[o + 1] + 256 * b[o + 2] + 65536 * b[o + 3] + 16777216 * b[o + 4]

\* io.ReadFull of n bytes at offset pos of a source of Len(b) bytes, as
\* binary.Read sees it: io.EOF when no byte is left, io.ErrUnexpectedEOF
\* when some but fewer than n are.
ReadFull(b, pos, n) ==
    IF pos >= Len(b) THEN "EOF"
    ELSE IF pos + n > Len(b) THEN "ErrUnexpectedEOF"
    ELSE "ok"

ReadSectionHeader(b, pos) ==
    [Identifier |-> SubSeq(b, pos + 1, pos + 4), Length |-> U32At(b, pos + 4)]

ReadWemDescriptor(b, pos) ==
    [WemId |-> U32At(b, pos), Offset |-> U32At(b, pos + 4), Length |-> U32At(b, pos + 8)]

WriteSectionHeader(h) == h.Identifier \o LE32(h.Length)

WriteWemDescriptor(d) == LE32(d.WemId) \o LE32(d.Offset) \o LE32(d.Length)

WriteBankDescriptor(d) == LE32(d.Version) \o LE32(d.BankId)

----------------------------------------------------------------------------
(* io.SectionReader.  r names what is read: "file" (the outer section     *)
(* reader over the input), "zero" (an InfiniteReaderAt{0}) or "wem" (a     *)
(* replacement source, whose bytes are in data).  off is the read position *)
(* and limit the end, as absolute offsets into what is read.               *)

NewSectionReader(r, data, off, n) ==
    [r |-> r, data |-> data, off |-> off, limit |-> off + n]

----------------------------------------------------------------------------
(* Parsing. *)

\* The File under construction; a section not met yet is Nil.
NewFileValue ==
    [BankHeaderSection |-> Nil, IndexSection |-> Nil, DataSection |-> Nil, Others |-> <<>>]

\* hdr.NewBankHeaderSection(sr) with sr at offset p.
NewBankHeaderSection(b, hdr, p) ==
    LET rd == ReadFull(b, p, BKHD_SECTION_BYTES)
        remaining == IF hdr.Length >= BKHD_SECTION_BYTES
                     THEN hdr.Length - BKHD_SECTION_BYTES
                     ELSE WrappedFar
        knownOffset == p + BKHD_SECTION_BYTES
    IN  IF rd # "ok"
        THEN [err |-> rd, sec |-> Nil, pos |-> p]
        ELSE [err |-> "",
              sec |-> Ptr([Header |-> hdr,
                           Descriptor |-> [Version |-> U32At(b, p), BankId |-> U32At(b, p + 4)],
                           RemainingReader |-> NewSectionReader("file", <<>>, knownOffset, remaining)]),
              pos |-> knownOffset + remaining]

\* DescriptorMap[id] = desc.
MapStore(m, id, desc) ==
    [k \in DOMAIN m \cup {id} |-> IF k = id THEN desc ELSE m[k]]

\* A parse that never looks a wem id up.
IsRepeatedWemIdUnchecked(DescriptorMap, id) == FALSE

\* _, ok := sec.DescriptorMap[desc.WemId]
IsRepeatedWemId(DescriptorMap, id) == id \in DOMAIN DescriptorMap

\* The loop of hdr.NewDataIndexSection(r): entry i of wemCount, r at offset p.
RECURSIVE ReadIndexEntries(_, _, _, _, _, _)
ReadIndexEntries(b, p, i, wemCount, WemIds, DescriptorMap) ==
    IF i >= wemCount
    THEN [err |-> "", panicId |-> 0, WemIds |-> WemIds, DescriptorMap |-> DescriptorMap, pos |-> p]
    ELSE LET rd == ReadFull(b, p, DIDX_ENTRY_BYTES)
         IN  IF rd # "ok"
             THEN [err |-> rd, panicId |-> 0, WemIds |-> WemIds,
                   DescriptorMap |-> DescriptorMap, pos |-> p]
             ELSE The({ IF IsRepeatedWemId(DescriptorMap, desc.WemId)
                        THEN [err |-> "PanicRepeatedWemId", panicId |-> desc.WemId,
                              WemIds |-> WemIds, DescriptorMap |-> DescriptorMap, pos |-> p]
                        ELSE The({ ReadIndexEntries(b, p + DIDX_ENTRY_BYTES, i + 1, wemCount, ids, m)
                                   : ids \in {Append(WemIds, desc.WemId)},
                                     m \in {MapStore(DescriptorMap, desc.WemId, desc)} })
                        : desc \in {ReadWemDescriptor(b, p)} })

\* hdr.NewDataIndexSection(r) with r at offset p.
NewDataIndexSection(b, hdr, p) ==
    LET wemCount == hdr.Length \div DIDX_ENTRY_BYTES
    IN  The({ IF e.err # ""
              THEN [err |-> e.err, panicId |-> e.panicId, sec |-> Nil, pos |-> e.pos]
              ELSE [err |-> "", panicId |-> 0,
                    sec |-> Ptr([Header |-> hdr, WemCount |-> wemCount,
                                 WemIds |-> e.WemIds, DescriptorMap |-> e.DescriptorMap]),
                    pos |-> e.pos]
              : e \in {ReadIndexEntries(b, p, 0, wemCount, <<>>, <<>>)} })

\* The Wem that hdr.NewDataSection builds for position i (0-based) of idx.
NewWem(hdr, dataOffset, idx, i) ==
    LET desc == idx.DescriptorMap[idx.WemIds[i + 1]]
        wemStartOffset == dataOffset + desc.Offset
        wemEndOffset == wemStartOffset + desc.Length
        nextOffset == IF i = Len(idx.WemIds) - 1
                      THEN dataOffset + hdr.Length
                      ELSE dataOffset + idx.DescriptorMap[idx.WemIds[i + 2]].Offset
        remaining == nextOffset - wemEndOffset
    IN  [Reader |-> NewSectionReader("file", <<>>, wemStartOffset, desc.Length),
         Descriptor |-> desc,
         RemainingReader |-> NewSectionReader("file", <<>>, wemEndOffset, remaining),
         RemainingLength |-> remaining]

\* hdr.NewDataSection(sr, idx) with sr at offset p; idx is a pointer.
NewDataSection(hdr, p, idx) ==
    IF idx = Nil
    THEN [err |-> "PanicNilIndex", sec |-> Nil, pos |-> p]
    ELSE [err |-> "",
          sec |-> Ptr([Header |-> hdr, DataStart |-> p,
                       Wems |-> [k \in 1..Len(Deref(idx).WemIds) |->
                                    NewWem(hdr, p, Deref(idx), k - 1)]]),
          pos |-> p + hdr.Length]

\* hdr.NewUnknownSection(sr) with sr at offset p.
NewUnknownSection(hdr, p) ==
    [err |-> "",
     sec |-> Ptr([Header |-> hdr, Reader |-> NewSectionReader("file", <<>>, p, hdr.Length)]),
     pos |-> p + hdr.Length]

\* The for loop of NewFile with sr at offset pos and the File so far in f.
RECURSIVE ParseLoop(_, _, _)
ParseLoop(b, pos, f) ==
    LET rd == ReadFull(b, pos, SECTION_HEADER_BYTES)
        p == pos + SECTION_HEADER_BYTES
    IN  IF rd = "EOF" THEN [err |-> "", panicId |-> 0, file |-> f]
        ELSE IF rd # "ok" THEN [err |-> rd, panicId |-> 0, file |-> f]
        ELSE The({
            IF hdr.Identifier = bkhdHeaderId
            THEN The({ IF s.err # "" THEN [err |-> s.err, panicId |-> 0, file |-> f]
                       ELSE ParseLoop(b, s.pos, [f EXCEPT !.BankHeaderSection = s.sec])
                       : s \in {NewBankHeaderSection(b, hdr, p)} })
            ELSE IF hdr.Identifier = didxHeaderId
            THEN The({ IF s.err # "" THEN [err |-> s.err, panicId |-> s.panicId, file |-> f]
                       ELSE ParseLoop(b, s.pos, [f EXCEPT !.IndexSection = s.sec])
                       : s \in {NewDataIndexSection(b, hdr, p)} })
            ELSE IF hdr.Identifier = dataHeaderId
            THEN The({ IF s.err # "" THEN [err |-> s.err, panicId |-> 0, file |-> f]
                       ELSE ParseLoop(b, s.pos, [f EXCEPT !.DataSection = s.sec])
                       : s \in {NewDataSection(hdr, p, f.IndexSection)} })
            ELSE The({ ParseLoop(b, s.pos, [f EXCEPT !.Others = Append(@, Deref(s.sec))])
                       : s \in {NewUnknownSection(hdr, p)} })
            : hdr \in {ReadSectionHeader(b, pos)} })

\* NewFile as defined first (file.go:36): a File without a DataSection is an error.
NewFileResult(b) ==
    The({ IF r.err # "" THEN [err |-> r.err, panicId |-> r.panicId, file |-> Nil]
          ELSE IF r.file.DataSection = Nil
          THEN [err |-> "ErrNoWems", panicId |-> 0, file |-> Nil]
          ELSE [err |-> "", panicId |-> 0, file |-> Ptr(r.file)]
          : r \in {ParseLoop(b, 0, NewFileValue)} })

\* NewFile as defined second (file.go:295): whatever the loop built is returned.
NewFileResult2(b) ==
    The({ IF r.err # "" THEN [err |-> r.err, panicId |-> r.panicId, file |-> Nil]
          ELSE [err |-> "", panicId |-> 0, file |-> Ptr(r.file)]
          : r \in {ParseLoop(b, 0, NewFileValue)} })

----------------------------------------------------------------------------
(* Reading: what io.Copy draws from a reader. *)

\* ReadAt of n bytes at offset off of a source holding the bytes d
\* (os.File, bytes.Reader), also through the outer section reader, whose
\* limit is math.MaxInt64: the bytes there are, io.EOF when fewer than n.
SourceReadAt(d, n, off) ==
    IF off >= Len(d) THEN [n |-> 0, p |-> <<>>, eof |-> TRUE]
    ELSE LET m == Min(n, Len(d) - off)
         IN  [n |-> m, p |-> SubSeq(d, off + 1, off + m), eof |-> m < n]

\* (*InfiniteReaderAt).ReadAt(p, off) with len(p) = n: fills all of p with
\* Value and returns 1, nil.
InfiniteReaderAtReadAt(Value, n, off) ==
    [n |-> 1, p |-> [k \in 1..n |-> Value], eof |-> FALSE]

\* s.r.ReadAt(p, s.off) for a section reader s over the input b.
ReaderReadAt(b, s, n) ==
    IF s.r = "zero" THEN InfiniteReaderAtReadAt(0, n, s.off)
    ELSE IF s.r = "wem" THEN SourceReadAt(s.data, n, s.off)
    ELSE SourceReadAt(b, n, s.off)

\* io.Copy(w, s) with a buffer of buf bytes: (*SectionReader).Read until
\* io.EOF, writing the bytes each Read reports.  acc is what was written.
RECURSIVE Copy(_, _, _, _)
Copy(b, s, buf, acc) ==
    IF s.off >= s.limit THEN [bytes |-> acc, s |-> s]
    ELSE The({ The({ IF res.eof THEN [bytes |-> acc2, s |-> s2]
                     ELSE Copy(b, s2, buf, acc2)
                     : s2 \in {[s EXCEPT !.off = @ + res.n]},
                       acc2 \in {acc \o SubSeq(res.p, 1, res.n)} })
               : res \in {ReaderReadAt(b, s, Min(buf, s.limit - s.off))} })

----------------------------------------------------------------------------
(* Serializing.  A section's WriteTo yields the piece it wrote (header,    *)
(* body and, for the data section, the body wem by wem), the count it      *)
(* returned and the section with its readers advanced.                     *)

Piece(kind, hdr, body, parts) == [kind |-> kind, hdr |-> hdr, body |-> body, parts |-> parts]

BankHeaderSectionWriteTo(b, sec, buf) ==
    The({ [piece |-> Piece("BKHD", WriteSectionHeader(sec.Header),
                           WriteBankDescriptor(sec.Descriptor) \o c.bytes, <<>>),
           written |-> SECTION_HEADER_BYTES + BKHD_SECTION_BYTES + Len(c.bytes),
           sec |-> [sec EXCEPT !.RemainingReader = c.s]]
          : c \in {Copy(b, sec.RemainingReader, buf, <<>>)} })

RECURSIVE IndexEntriesBytes(_, _)
IndexEntriesBytes(idx, k) ==
    IF k > Len(idx.WemIds) THEN <<>>
    ELSE WriteWemDescriptor(idx.DescriptorMap[idx.WemIds[k]]) \o IndexEntriesBytes(idx, k + 1)

DataIndexSectionWriteTo(idx) ==
    [piece |-> Piece("DIDX", WriteSectionHeader(idx.Header), IndexEntriesBytes(idx, 1), <<>>),
     written |-> SECTION_HEADER_BYTES + DIDX_ENTRY_BYTES * Len(idx.WemIds),
     sec |-> idx]

\* One turn of the loop of (*DataSection).WriteTo.
WemWriteTo(b, wem, buf) ==
    The({ [part |-> [payload |-> c1.bytes, padding |-> c2.bytes],
           wem |-> [wem EXCEPT !.Reader = c1.s, !.RemainingReader = c2.s]]
          : c1 \in {Copy(b, wem.Reader, buf, <<>>)},
            c2 \in {Copy(b, wem.RemainingReader, buf, <<>>)} })

RECURSIVE ConcatParts(_, _)
ConcatParts(parts, k) ==
    IF k > Len(parts) THEN <<>>
    ELSE parts[k].payload \o parts[k].padding \o ConcatParts(parts, k + 1)

DataSectionWriteTo(b, data, buf) ==
    The({ The({ [piece |-> Piece("DATA", WriteSectionHeader(data.Header), body,
                                 [k \in 1..Len(w) |-> w[k].part]),
                 written |-> SECTION_HEADER_BYTES + Len(body),
                 sec |-> [data EXCEPT !.Wems = [k \in 1..Len(w) |-> w[k].wem]]]
                : body \in {ConcatParts([k \in 1..Len(w) |-> w[k].part], 1)} })
          : w \in {[k \in 1..Len(data.Wems) |-> WemWriteTo(b, data.Wems[k], buf)]} })

UnknownSectionWriteTo(b, unknown, buf) ==
    The({ [piece |-> Piece("OTHER", WriteSectionHeader(unknown.Header), c.bytes, <<>>),
           written |-> SECTION_HEADER_BYTES + Len(c.bytes),
           sec |-> [unknown EXCEPT !.Reader = c.s]]
          : c \in {Copy(b, unknown.Reader, buf, <<>>)} })

RECURSIVE SumWritten(_, _)
SumWritten(ws, k) == IF k > Len(ws) THEN 0 ELSE ws[k].written + SumWritten(ws, k + 1)

\* A WriteTo that writes the unknown sections before the data section.
WriteOrderOthersFirst(bk, ix, da, others) == <<bk, ix>> \o others \o <<da>>

\* The order in which File.WriteTo writes the sections it has written.
WriteOrder(bk, ix, da, others) == <<bk, ix, da>> \o others

\* (*File).WriteTo(w).  A nil section is dereferenced by its WriteTo: the
\* call panics with what the sections before it have written.
FileWriteTo(b, f, buf) ==
    IF f.BankHeaderSection = Nil
    THEN [panic |-> "PanicNilSection", pieces |-> <<>>, written |-> 0, file |-> f]
    ELSE The({
        IF f.IndexSection = Nil
        THEN [panic |-> "PanicNilSection", pieces |-> <<bk.piece>>, written |-> 0,
              file |-> [f EXCEPT !.BankHeaderSection = Ptr(bk.sec)]]
        ELSE IF f.DataSection = Nil
        THEN [panic |-> "PanicNilSection",
              pieces |-> <<bk.piece, DataIndexSectionWriteTo(Deref(f.IndexSection)).piece>>,
              written |-> 0,
              file |-> [f EXCEPT !.BankHeaderSection = Ptr(bk.sec)]]
        ELSE The({ The({ [panic |-> "",
                          pieces |-> [k \in 1..Len(ws) |-> ws[k].piece],
                          written |-> SumWritten(ws, 1),
                          file |-> [f EXCEPT !.BankHeaderSection = Ptr(bk.sec),
                                             !.DataSection = Ptr(da.sec),
                                             !.Others = [k \in 1..Len(os) |-> os[k].sec]]]
                         : ws \in {WriteOrder(bk, ix, da, os)} })
                   : ix \in {DataIndexSectionWriteTo(Deref(f.IndexSection))},
                     da \in {DataSectionWriteTo(b, Deref(f.DataSection), buf)},
                     os \in {[k \in 1..Len(f.Others) |->
                                UnknownSectionWriteTo(b, f.Others[k], buf)]} })
        : bk \in {BankHeaderSectionWriteTo(b, Deref(f.BankHeaderSection), buf)} })

----------------------------------------------------------------------------
(* Replacing. *)

\* A store that leaves the descriptor map as it was.
StoreWemOnly(f, i, wem) ==
    [f EXCEPT !.DataSection = Ptr([Deref(@) EXCEPT !.Wems[i + 1] = wem])]

\* The wem and descriptor map of f with wem i (0-based) and its map entry replaced.
StoreWem(f, i, wem) ==
    [f EXCEPT !.DataSection = Ptr([Deref(@) EXCEPT !.Wems[i + 1] = wem]),
              !.IndexSection = Ptr([Deref(@) EXCEPT
                  !.DescriptorMap = MapStore(@, wem.Descriptor.WemId, wem.Descriptor)])]

\* A test that lets a wem one byte larger through.
ReplaceWemTooLargeOffByOne(length, oldLength) == length > oldLength + 1

\* ReplaceWem: the test that panics.
ReplaceWemTooLarge(length, oldLength) == length > oldLength

\* A padding that forgets the bytes the wem shrank by.
ReplaceWemRemainingNoShrink(diff, wem) == wem.RemainingLength

\* ReplaceWem: the length of the new RemainingReader.
ReplaceWemRemaining(diff, wem) == diff + wem.RemainingLength

\* A descriptor moved by the bytes the wem shrank by.
ReplaceWemDescriptorShifted(oldDesc, length) ==
    [WemId |-> oldDesc.WemId, Offset |-> oldDesc.Offset + (oldDesc.Length - length),
     Length |-> length]

\* ReplaceWem: the new descriptor.
ReplaceWemDescriptor(oldDesc, length) ==
    [WemId |-> oldDesc.WemId, Offset |-> oldDesc.Offset, Length |-> length]

\* (*File).ReplaceWem(i, r, length), r holding the bytes data.
FileReplaceWem(f, i, data, length) ==
    IF f.DataSection = Nil THEN [panic |-> "PanicNilSection", file |-> f, applied |-> 0]
    ELSE LET wem == Deref(f.DataSection).Wems[i + 1]
             oldLength == wem.Descriptor.Length
             diff == oldLength - length
             remaining == ReplaceWemRemaining(diff, wem)
         IN  IF ReplaceWemTooLarge(length, oldLength)
             THEN [panic |-> "PanicLargerWem", file |-> f, applied |-> 0]
             ELSE [panic |-> "",
                   file |-> StoreWem(f, i,
                       [Reader |-> NewSectionReader("wem", data, 0, length),
                        Descriptor |-> ReplaceWemDescriptor(wem.Descriptor, length),
                        RemainingReader |-> NewSectionReader("zero", <<>>, 0, remaining),
                        RemainingLength |-> wem.RemainingLength]),
                   applied |-> 1]

\* ReplaceWems: one turn of the loop, for the entry r.
ReplaceWemsEntry(f, r) ==
    LET wem == Deref(f.DataSection).Wems[r.WemIndex + 1]
        oldLength == wem.Descriptor.Length
        diff == oldLength - r.Length
        remaining == diff + wem.RemainingLength
        oldDesc == wem.Descriptor
    IN  IF r.Length > oldLength
        THEN [panic |-> "PanicLargerWem", file |-> f]
        ELSE [panic |-> "",
              file |-> StoreWem(f, r.WemIndex,
                  [Reader |-> NewSectionReader("wem", r.Wem, 0, r.Length),
                   Descriptor |-> [WemId |-> oldDesc.WemId, Offset |-> oldDesc.Offset,
                                   Length |-> r.Length],
                   RemainingReader |-> NewSectionReader("zero", <<>>, 0, remaining),
                   RemainingLength |-> wem.RemainingLength])]

\* (*File).ReplaceWems(replacements...): the entries from k on.
RECURSIVE FileReplaceWems(_, _, _)
FileReplaceWems(f, replacements, k) ==
    IF k > Len(replacements) THEN [panic |-> "", file |-> f, applied |-> k - 1]
    ELSE IF f.DataSection = Nil THEN [panic |-> "PanicNilSection", file |-> f, applied |-> k - 1]
    ELSE The({ IF e.panic # "" THEN [panic |-> e.panic, file |-> e.file, applied |-> k - 1]
               ELSE FileReplaceWems(e.file, replacements, k + 1)
               : e \in {ReplaceWemsEntry(f, replacements[k])} })

----------------------------------------------------------------------------
(* The inputs: SoundBank files assembled chunk by chunk, then truncated.   *)
(* gen records the assembly: layout, the kinds of the chunks in file       *)
(* order ("B" bank header, "I" index, "D" data, "U1" / "U2" unknown);      *)
(* entries, the index records as <<id, offset, length>>; dataLen, the      *)
(* length of the data chunk; slack, "none", or "declared" (the index       *)
(* header declares 4 bytes more than its records take) or "padded" (and    *)
(* 4 such bytes are there); cut, the bytes missing at the end.             *)

Layouts ==
    { <<"B", "I", "D">>, <<"B", "I", "D", "U1">>, <<"U1", "B", "I", "U2", "D">>,
      <<"I", "D">>, <<"B">>, <<"B", "I", "U1">>, <<"B", "D", "I">>, <<"U1", "D">> }

Indexes ==
    { [entries |-> <<>>, dataLen |-> 0],
      [entries |-> << <<1, 0, 2>> >>, dataLen |-> 4],
      [entries |-> << <<1, 0, 2>>, <<2, 2, 1>> >>, dataLen |-> 3],
      [entries |-> << <<1, 0, 1>>, <<2, 2, 2>> >>, dataLen |-> 5],
      [entries |-> << <<1, 1, 2>> >>, dataLen |-> 3],
      [entries |-> << <<5, 0, 1>>, <<5, 1, 1>> >>, dataLen |-> 2],
      [entries |-> << <<5, 0, 1>>, <<6, 1, 1>>, <<5, 2, 1>> >>, dataLen |-> 3] }

PlainIndex == [entries |-> << <<1, 0, 2>> >>, dataLen |-> 4]
PlainLayouts == { <<"B", "I", "D">>, <<"B", "I", "D", "U1">> }

Gens ==
    { [layout |-> l, entries |-> PlainIndex.entries, dataLen |-> PlainIndex.dataLen,
       slack |-> "none", cut |-> c] : l \in Layouts, c \in 0..MaxCut }
    \cup
    { [layout |-> l, entries |-> x.entries, dataLen |-> x.dataLen, slack |-> s, cut |-> 0] :
        l \in PlainLayouts, x \in Indexes, s \in {"none", "declared", "padded"} }

RECURSIVE EntriesBytes(_, _)
EntriesBytes(entries, k) ==
    IF k > Len(entries) THEN <<>>
    ELSE LE32(entries[k][1]) \o LE32(entries[k][2]) \o LE32(entries[k][3])
         \o EntriesBytes(entries, k + 1)

\* The byte at offset q of the data chunk's payload: 160 + id inside the
\* wem id, 17 before the first wem, 0 (padding) elsewhere.
ArenaByte(entries, q) ==
    LET inside == {k \in 1..Len(entries) : entries[k][2] <= q /\ q < entries[k][2] + entries[k][3]}
    IN  IF inside # {} THEN 160 + entries[CHOOSE k \in inside : TRUE][1]
        ELSE IF Len(entries) > 0 /\ q < entries[1][2] THEN 17
        ELSE 0

\* The header and the payload of the chunk of kind kind.
ChunkHeader(g, kind) ==
    IF kind = "B" THEN bkhdHeaderId \o LE32(BKHD_SECTION_BYTES + 2)
    ELSE IF kind = "I"
    THEN didxHeaderId \o LE32(DIDX_ENTRY_BYTES * Len(g.entries) + (IF g.slack = "none" THEN 0 ELSE 4))
    ELSE IF kind = "D" THEN dataHeaderId \o LE32(g.dataLen)
    ELSE IF kind = "U1" THEN <<72, 73, 82, 67>> \o LE32(2)
    ELSE <<83, 84, 73, 68>> \o LE32(1)

ChunkPayload(g, kind) ==
    IF kind = "B" THEN LE32(120) \o LE32(7) \o <<1, 2>>
    ELSE IF kind = "I"
    THEN EntriesBytes(g.entries, 1) \o (IF g.slack = "padded" THEN <<74, 74, 74, 74>> ELSE <<>>)
    ELSE IF kind = "D" THEN [q \in 1..g.dataLen |-> ArenaByte(g.entries, q - 1)]
    ELSE IF kind = "U1" THEN <<49, 50>>
    ELSE <<65>>

RECURSIVE ChunksBytes(_, _)
ChunksBytes(g, k) ==
    IF k > Len(g.layout) THEN <<>>
    ELSE ChunkHeader(g, g.layout[k]) \o ChunkPayload(g, g.layout[k]) \o ChunksBytes(g, k + 1)

GenBytes(g) ==
    LET all == ChunksBytes(g, 1)
    IN  SubSeq(all, 1, Len(all) - g.cut)

\* The replacement sources: 0..MaxSrcLen bytes of 187.
SourceOf(n) == [k \in 1..n |-> 187]

----------------------------------------------------------------------------
(* The state machine. *)

NoOut == [panic |-> "", pieces |-> <<>>, written |-> 0]

\* The record of a call given the entries replacements (none but for a replacement call).
Call(op, panic, replacements) ==
    [op |-> op, panic |-> panic, n |-> Len(replacements),
     given |-> {replacements[k].WemIndex : k \in 1..Len(replacements)},
     length |-> IF Len(replacements) = 1 THEN replacements[1].Length ELSE 0]

Init ==
    /\ gen \in {g \in Gens : g.cut <= Len(ChunksBytes(g, 1))}
    /\ input = GenBytes(gen)
    /\ pc = "start"
    /\ result = [err |-> "", panicId |-> 0]
    /\ bnk = Nil
    /\ out = NoOut
    /\ last = Call("none", "", <<>>)
    /\ hist = [replaces |-> 0, applied |-> 0, writes |-> 0, valid |-> TRUE]

Parsed(r) ==
    /\ result' = [err |-> r.err, panicId |-> r.panicId]
    /\ bnk' = r.file
    /\ pc' = IF r.file = Nil THEN "failed" ELSE "parsed"
    /\ last' = Call("NewFile", "", <<>>)
    /\ UNCHANGED <<input, gen, out, hist>>

\* bnk.NewFile(r), the first definition.
NewFile ==
    /\ pc = "start"
    /\ \E r \in {NewFileResult(input)} : Parsed(r)

\* bnk.NewFile(r), the second definition.
NewFile2 ==
    /\ pc = "start"
    /\ \E r \in {NewFileResult2(input)} : Parsed(r)

WemIndexes(f) ==
    IF f.DataSection = Nil THEN {0} ELSE 0..(Len(Deref(f.DataSection).Wems) - 1)

\* The call op, given the entries replacements, ended as r.
Replaced(op, replacements, r) ==
    /\ bnk' = Ptr(r.file)
    /\ last' = Call(op, r.panic, replacements)
    /\ hist' = [hist EXCEPT
                   !.replaces = @ + Len(replacements),
                   !.applied = @ + r.applied,
                   !.valid = /\ @
                             /\ r.panic = ""
                             /\ \A k \in 1..Len(replacements) :
                                   Len(replacements[k].Wem) >= replacements[k].Length]
    /\ UNCHANGED <<input, gen, pc, result, out>>

\* bnk.ReplaceWem(i, r, length) with r holding srcLen bytes.
ReplaceWemCall(i, srcLen, length) ==
    \E r \in {FileReplaceWem(Deref(bnk), i, SourceOf(srcLen), length)} :
        Replaced("ReplaceWem",
                 << [Wem |-> SourceOf(srcLen), WemIndex |-> i, Length |-> length] >>, r)

ReplaceWem ==
    /\ pc = "parsed"
    /\ hist.replaces < MaxReplacements
    /\ \E i \in WemIndexes(Deref(bnk)), srcLen \in 0..MaxSrcLen, length \in 0..MaxNewLen :
          ReplaceWemCall(i, srcLen, length)

BatchEntries(f) ==
    [Wem : {SourceOf(MaxSrcLen)}, WemIndex : WemIndexes(f), Length : 0..MaxNewLen]

\* The batches of at most max entries.
Batches(f, max) ==
    UNION {[1..n -> BatchEntries(f)] : n \in 0..max}

\* bnk.ReplaceWems(replacements...).
ReplaceWemsCall(replacements) ==
    \E r \in {FileReplaceWems(Deref(bnk), replacements, 1)} :
        Replaced("ReplaceWems", replacements, r)

ReplaceWems ==
    /\ pc = "parsed"
    /\ \E replacements \in Batches(Deref(bnk), MaxReplacements - hist.replaces) :
          ReplaceWemsCall(replacements)

\* bnk.WriteTo(w), io.Copy reading with a buffer of buf bytes.
WriteToCall(buf) ==
    /\ \E r \in {FileWriteTo(input, Deref(bnk), buf)} :
           /\ bnk' = Ptr(r.file)
           /\ out' = [panic |-> r.panic, pieces |-> r.pieces, written |-> r.written]
           /\ last' = Call("WriteTo", r.panic, <<>>)
    /\ hist' = [hist EXCEPT !.writes = @ + 1]
    /\ UNCHANGED <<input, gen, pc, result>>

WriteTo ==
    /\ pc = "parsed"
    /\ hist.writes < MaxWrites
    /\ \E buf \in 1..MaxCopyBuf : WriteToCall(buf)

Next ==
    \/ NewFile
    \/ NewFile2
    \/ ReplaceWem
    \/ ReplaceWems
    \/ WriteTo

Spec == Init /\ [][Next]_vars

----------------------------------------------------------------------------
(* What the properties speak of. *)

File == Deref(bnk)
HasData == bnk # Nil /\ File.DataSection # Nil
Wems == Deref(File.DataSection).Wems
DescriptorMapOf(f) == Deref(f.IndexSection).DescriptorMap

\* The position of the chunk of kind kind in the layout, 0 when there is none.
Position(layout, kind) ==
    IF \E k \in 1..Len(layout) : layout[k] = kind
    THEN CHOOSE k \in 1..Len(layout) : layout[k] = kind
    ELSE 0

\* The offsets in the assembled file at which a chunk ends, and offset 0.
RECURSIVE ChunkEnd(_, _)
ChunkEnd(g, k) ==
    IF k = 0 THEN 0
    ELSE ChunkEnd(g, k - 1) + Len(ChunkHeader(g, g.layout[k])) + Len(ChunkPayload(g, g.layout[k]))

Boundaries(g) == {ChunkEnd(g, k) : k \in 0..Len(g.layout)}

\* The index chunk comes first of index and data, and all its bytes are in the input.
IndexComplete ==
    /\ Position(gen.layout, "I") > 0
    /\ Position(gen.layout, "D") \in {0} \cup (Position(gen.layout, "I") + 1)..Len(gen.layout)
    /\ Len(input) >= ChunkEnd(gen, Position(gen.layout, "I"))

\* One bank header, one index, then one data chunk, and no byte missing.
WholeContainer ==
    /\ Position(gen.layout, "B") > 0
    /\ Position(gen.layout, "I") > 0
    /\ Position(gen.layout, "D") > Position(gen.layout, "I")
    /\ gen.cut = 0

\* The padding the assembled data chunk has after the wem at position k.
GenPadding(g, k) ==
    (IF k = Len(g.entries) THEN g.dataLen ELSE g.entries[k + 1][2])
        - (g.entries[k][2] + g.entries[k][3])

\* The index lists the wems in ascending offsets from 0, without overlap, inside the data chunk.
IndexWellFormed(g) ==
    /\ Len(g.entries) > 0
    /\ g.entries[1][2] = 0
    /\ \A k \in 1..Len(g.entries) : GenPadding(g, k) >= 0

HasRepeatedId(entries) ==
    \E i, j \in 1..Len(entries) : i < j /\ entries[i][1] = entries[j][1]

IsPanic(err) == err \in {"PanicRepeatedWemId", "PanicNilIndex"}

Zeros(n) == [k \in 1..n |-> 0]

\* The piece of kind kind that the last WriteTo wrote.
PieceOf(kind) ==
    out.pieces[CHOOSE k \in 1..Len(out.pieces) : out.pieces[k].kind = kind]

\* The last call was the first WriteTo of this File, and it returned.
FirstWrite == last.op = "WriteTo" /\ hist.writes = 1 /\ out.panic = ""

IsReplacement(op) == op \in {"ReplaceWem", "ReplaceWems"}

IsUnknownKind(kind) == kind \in {"U1", "U2"}

RECURSIVE PiecesLen(_, _)
PiecesLen(pieces, k) ==
    IF k > Len(pieces) THEN 0
    ELSE Len(pieces[k].hdr) + Len(pieces[k].body) + PiecesLen(pieces, k + 1)

----------------------------------------------------------------------------
(* The properties. *)

\* C1: total span invariance.  For a whole container whose index is well
\* formed, after any replacement calls that all returned (each with a
\* length at most the wem's current length, each from a source holding
\* that many bytes), the data section that WriteTo writes holds exactly
\* as many payload and padding bytes as its header declares.
C1_TotalSpanInvariance ==
    (FirstWrite /\ WholeContainer /\ IndexWellFormed(gen) /\ hist.valid)
        => Len(PieceOf("DATA").body) = Deref(File.DataSection).Header.Length

\* What a replacement call given the wem indexes touched leaves as it was.
C2_Frame(touched) ==
    /\ Len(Wems') = Len(Wems)
    /\ \A k \in 1..Len(Wems) :
          /\ Wems'[k].Descriptor.Offset = Wems[k].Descriptor.Offset
          /\ Wems'[k].Descriptor.WemId = Wems[k].Descriptor.WemId
          /\ (k - 1) \notin touched => Wems'[k] = Wems[k]
    /\ DOMAIN DescriptorMapOf(File') = DOMAIN DescriptorMapOf(File)
    /\ \A id \in DOMAIN DescriptorMapOf(File) :
          /\ DescriptorMapOf(File')[id].Offset = DescriptorMapOf(File)[id].Offset
          /\ DescriptorMapOf(File')[id].WemId = DescriptorMapOf(File)[id].WemId
          /\ (\A k \in 1..Len(Wems) : (k - 1) \in touched => Wems[k].Descriptor.WemId # id)
                => DescriptorMapOf(File')[id] = DescriptorMapOf(File)[id]
    /\ File'.BankHeaderSection = File.BankHeaderSection
    /\ Deref(File'.IndexSection).Header = Deref(File.IndexSection).Header
    /\ Deref(File'.DataSection).Header = Deref(File.DataSection).Header

\* C2: offset invariance under shrink.  A replacement call that returns
\* (single or batched) leaves the offset and id of every descriptor, in the
\* wems and in the descriptor map, as they were; leaves every wem it was not
\* given as it was; and leaves the three section headers as they were.
C2_OffsetInvariance ==
    [][(HasData /\ IsReplacement(last'.op) /\ last'.panic = "") => C2_Frame(last'.given)]_vars

\* A shorter wem has replaced the first of two.
C2_Witness ==
    /\ HasData /\ Len(Wems) = 2
    /\ last.op \in {"ReplaceWem", "ReplaceWems"} /\ last.panic = ""
    /\ Wems[1].Reader.r = "wem"
    /\ Wems[1].Descriptor.Length < gen.entries[1][3]

\* C3: growth rejection.  A single replacement (ReplaceWem, or ReplaceWems
\* with one entry) whose length exceeds the wem's current descriptor length
\* panics and leaves the whole File as it was: every wem's Reader,
\* RemainingReader, RemainingLength and Descriptor, and the descriptor map.
C3_GrowthRejection ==
    [][(HasData /\ IsReplacement(last'.op) /\ last'.n = 1) =>
          \A i \in last'.given :
             last'.length > Wems[i + 1].Descriptor.Length
                 => (last'.panic = "PanicLargerWem" /\ bnk' = bnk)
      ]_vars

\* A replacement was rejected after an earlier one was applied.
C3_Witness ==
    /\ last.op = "ReplaceWem" /\ last.panic = "PanicLargerWem"
    /\ hist.applied = 1

\* C4: replacement result.  After one replacement applied to a freshly
\* parsed File, of the wem at position k (id, offset, old length and p >= 0
\* bytes of padding as assembled) by n bytes of a source holding at least
\* n, the descriptor is {id, offset, n} in the wem and in the map, and the
\* first WriteTo writes for the wem exactly the first n source bytes and
\* then exactly old length - n + p zero bytes.  The call's source and
\* length are what the wem's Reader holds.
C4_ReplacementResult ==
    (FirstWrite /\ hist.replaces = 1 /\ hist.applied = 1 /\ hist.valid) =>
        \A k \in 1..Len(Wems) :
            (Wems[k].Reader.r = "wem" /\ GenPadding(gen, k) >= 0) =>
                LET n == Wems[k].Reader.limit
                    desc == [WemId |-> gen.entries[k][1], Offset |-> gen.entries[k][2],
                             Length |-> n]
                    part == PieceOf("DATA").parts[k]
                IN  /\ n <= gen.entries[k][3]
                    /\ Wems[k].Descriptor = desc
                    /\ DescriptorMapOf(File)[desc.WemId] = desc
                    /\ part.payload = SubSeq(Wems[k].Reader.data, 1, n)
                    /\ part.padding = Zeros(gen.entries[k][3] - n + GenPadding(gen, k))

\* The scenario of the specification, scaled: 2 payload bytes and 2 of
\* padding, replaced by 1 byte, written as that byte and 3 zero bytes.
C4_Witness ==
    /\ FirstWrite /\ hist.replaces = 1 /\ hist.applied = 1 /\ hist.valid
    /\ gen.entries = << <<1, 0, 2>> >>
    /\ Wems[1].Reader.r = "wem"
    /\ PieceOf("DATA").body = <<187, 0, 0, 0>>

\* The piece written for a chunk is the input's chunk.
C5_ChunkRoundTrip(kind, layoutKind) ==
    /\ PieceOf(kind).hdr = ChunkHeader(gen, layoutKind)
    /\ PieceOf(kind).body = ChunkPayload(gen, layoutKind)
    /\ Len(PieceOf(kind).body) = U32At(PieceOf(kind).hdr, 4)

\* C5: round trip.  For a whole container that parsed, the first WriteTo,
\* with no replacement made, writes for the bank header, index and data
\* chunks the header and the payload of the input's chunk, each payload as
\* long as its header declares.
C5_RoundTrip ==
    (FirstWrite /\ WholeContainer /\ hist.replaces = 0) =>
        /\ C5_ChunkRoundTrip("BKHD", "B")
        /\ C5_ChunkRoundTrip("DIDX", "I")
        /\ C5_ChunkRoundTrip("DATA", "D")

\* C6: duplicate id rejection.  When NewFile gets to an index chunk whose
\* records are all in the input, it panics over a repeated wem id exactly
\* when two of the records, at any positions, carry the same id; the panic
\* names an id that two records carry, and no File is returned.
C6_DuplicateIdRejection ==
    /\ (pc # "start" /\ IndexComplete) =>
          (HasRepeatedId(gen.entries) <=> result.err = "PanicRepeatedWemId")
    /\ result.err = "PanicRepeatedWemId" =>
          /\ bnk = Nil
          /\ \E i, j \in 1..Len(gen.entries) :
                i < j /\ gen.entries[i][1] = result.panicId /\ gen.entries[j][1] = result.panicId

\* The first and the third of three records carry the same id.
C6_Witness ==
    /\ result.err = "PanicRepeatedWemId"
    /\ Len(gen.entries) = 3
    /\ gen.entries[2][1] # result.panicId

\* C7: missing data chunk.  Parsing a file that ends at a chunk boundary
\* and holds no data chunk fails with the error that no wems are stored,
\* and returns no File.
C7_MissingDataChunk ==
    (pc # "start" /\ Position(gen.layout, "D") = 0 /\ gen.cut = 0 /\ gen.slack = "none")
        => (result.err = "ErrNoWems" /\ bnk = Nil)

\* C8: data before index.  When the parse loop meets a data chunk before
\* any index chunk, NewFile returns an error and no File: it fails, and
\* not by a panic.
C8_DataBeforeIndex ==
    (/\ pc # "start"
     /\ Position(gen.layout, "D") > 0
     /\ Position(gen.layout, "I") \in {0} \cup (Position(gen.layout, "D") + 1)..Len(gen.layout)
     /\ Len(input) >= ChunkEnd(gen, Position(gen.layout, "D")))
        => (result.err # "" /\ ~IsPanic(result.err) /\ bnk = Nil)

\* C9: truncated input is fatal.  When the input ends anywhere but at a
\* chunk boundary (a payload is shorter than its header declares, or 1 to
\* 7 bytes are left where a header is due), NewFile fails and returns no File.
C9_TruncatedInputFatal ==
    (pc # "start" /\ gen.slack = "none" /\ Len(input) \notin Boundaries(gen))
        => (result.err # "" /\ bnk = Nil)

\* C10: serialize order.  A WriteTo that returns has written the bank
\* header section, the index section, the data section, then every
\* unknown section once, in the order the parse met them, whatever
\* their places in the input; the count it returns is the number of
\* bytes written.
C10_SerializeOrder ==
    (last.op = "WriteTo" /\ out.panic = "") =>
        /\ Len(out.pieces) = 3 + Len(File.Others)
        /\ out.pieces[1].kind = "BKHD"
        /\ out.pieces[1].hdr = WriteSectionHeader(Deref(File.BankHeaderSection).Header)
        /\ out.pieces[2].kind = "DIDX"
        /\ out.pieces[2].hdr = WriteSectionHeader(Deref(File.IndexSection).Header)
        /\ out.pieces[3].kind = "DATA"
        /\ out.pieces[3].hdr = WriteSectionHeader(Deref(File.DataSection).Header)
        /\ \A k \in 1..Len(File.Others) :
              /\ out.pieces[3 + k].kind = "OTHER"
              /\ out.pieces[3 + k].hdr = WriteSectionHeader(File.Others[k].Header)
        /\ gen.cut = 0 =>
              LET unknown == SelectSeq(gen.layout, IsUnknownKind)
              IN  /\ Len(File.Others) = Len(unknown)
                  /\ \A k \in 1..Len(unknown) :
                        /\ out.pieces[3 + k].hdr = ChunkHeader(gen, unknown[k])
                        /\ hist.writes = 1 => out.pieces[3 + k].body = ChunkPayload(gen, unknown[k])
        /\ out.written = PiecesLen(out.pieces, 1)

\* Unknown chunks before the bank header and between index and data were written last.
C10_Witness ==
    /\ last.op = "WriteTo" /\ out.panic = ""
    /\ gen.layout = <<"U1", "B", "I", "U2", "D">>
    /\ Len(out.pieces) = 5
    /\ out.pieces[4].body = <<49, 50>>
    /\ out.pieces[5].body = <<65>>

\* The index records as assembled, each with the length its wem has now.
LatestEntries ==
    [k \in 1..Len(gen.entries) |->
        <<gen.entries[k][1], gen.entries[k][2], Wems[k].Descriptor.Length>>]

\* C11: index views stay in sync.  On a File with wems, after any
\* replacement calls (returned or panicked): the list of wem ids is the
\* assembled index's ids in its order; the wem at each position k holds
\* the descriptor the map has for the k-th id, with the id and offset as
\* assembled; a single replacement that returned left the wem's length at
\* the length it was given; and a WriteTo that returns writes the index
\* records in the assembled order with those ids, offsets and the wems'
\* latest lengths.
C11_IndexViewsInSync ==
    HasData =>
        LET idx == Deref(File.IndexSection)
        IN  /\ idx.WemIds = [k \in 1..Len(gen.entries) |-> gen.entries[k][1]]
            /\ Len(Wems) = Len(idx.WemIds)
            /\ \A k \in 1..Len(Wems) :
                  /\ Wems[k].Descriptor = idx.DescriptorMap[idx.WemIds[k]]
                  /\ Wems[k].Descriptor.WemId = gen.entries[k][1]
                  /\ Wems[k].Descriptor.Offset = gen.entries[k][2]
            /\ (IsReplacement(last.op) /\ last.n = 1 /\ last.panic = "") =>
                  \A i \in last.given : Wems[i + 1].Descriptor.Length = last.length
            /\ (last.op = "WriteTo" /\ out.panic = "") =>
                  PieceOf("DIDX").body = EntriesBytes(LatestEntries, 1)

\* Both wems of a file were replaced, the second by nothing, and the index was written.
C11_Witness ==
    /\ HasData /\ Len(Wems) = 2
    /\ last.op = "WriteTo" /\ out.panic = ""
    /\ hist.applied = 2 /\ hist.valid
    /\ Wems[1].Descriptor.Length = 1 /\ gen.entries[1][3] = 2
    /\ Wems[2].Descriptor.Length = 0
    /\ PieceOf("DIDX").body = EntriesBytes(<< <<1, 0, 1>>, <<2, 2, 0>> >>, 1)

\* C12: batch atomicity.  A ReplaceWems call given, at any position, an
\* entry whose Length exceeds the descriptor length its wem had before the
\* call panics and leaves the whole File as it was: no entry of the batch
\* has been applied, those listed before the failing one included.
C12_BatchAtomicity ==
    [][(pc = "parsed" /\ HasData) =>
          \A replacements \in Batches(File, MaxReplacements - hist.replaces) :
             (/\ \E k \in 1..Len(replacements) :
                     replacements[k].Length
                         > Wems[replacements[k].WemIndex + 1].Descriptor.Length
              /\ ReplaceWemsCall(replacements))
                 => (last'.panic = "PanicLargerWem" /\ bnk' = bnk)
      ]_vars

====
